---- MODULE Spec2Model ----
(***************************************************************************)
(* Model of argon's ArgonState (src/src/state.cpp): the server-URL guard,  *)
(* the registry of pending requests, the three-stage protocol handlers     *)
(* and the worker thread that stores the authtoken.                        *)
(*                                                                         *)
(* Threads: the main thread runs pushNewRequest and every listener         *)
(* callback (one action per delivered event); a second thread calls        *)
(* setServerUrl (one action per critical step); the worker thread runs     *)
(* the queued tasks.                                                       *)
(***************************************************************************)
EXTENDS Integers, Sequences, FiniteSets, TLC

\* ---------------------------------------------------------------- bounds
MaxReqs == 1          \* requests the protocol specifications keep in flight at once
MaxId == 2            \* pushNewRequest is not called once nextReqId exceeds this
MaxSlashes == 2       \* trailing slashes of the urls passed to setServerUrl
MaxNow == 120000      \* the clock stops advancing here (ms)
TickStep == 60000     \* granularity of the clock (ms)

\* ------------------------------------------------------ program constants
VerifyTimeout == 60000   \* Duration::fromMinutes(1), in ms
MaxPollAfter == 60000    \* upper limit of an accepted pollAfter

Ptrs == 1..(MaxReqs + 1)   \* heap cells a PendingRequest can be allocated in
Ids == 1..MaxId
Accounts == {"acc1"}
AuthAccounts == {"acc1", "acc2"}
Methods == {"message", "comment", "other"}
Tokens == {"XYZ"}
PollAfters == {-1, 0, MaxPollAfter, MaxPollAfter + 1}

RECURSIVE Slashes(_)
Slashes(k) == IF k = 0 THEN <<>> ELSE Append(Slashes(k - 1), "/")

\* urls a caller may pass: "", "a", each followed by up to MaxSlashes slashes
Urls == {pre \o Slashes(k) : pre \in {<<>>, <<"a">>}, k \in 0..MaxSlashes}

\* ------------------------------------------------------------- responses
Idents == {"abc"}

Stage1Responses ==
    [json : {FALSE}, success : {FALSE}, hasError : {FALSE}, hasData : {FALSE},
     method : {"message"}, ident : Idents]
    \cup [json : {TRUE}, success : {FALSE}, hasError : BOOLEAN, hasData : {FALSE},
          method : {"message"}, ident : Idents]
    \cup [json : {TRUE}, success : {TRUE}, hasError : {FALSE}, hasData : {FALSE},
          method : {"message"}, ident : Idents]
    \cup [json : {TRUE}, success : {TRUE}, hasError : {FALSE}, hasData : {TRUE},
          method : Methods, ident : Idents]

Stage2Responses == [body : {"", "-1", "sent"}, ok : BOOLEAN]

Stage3Responses ==
    [json : {FALSE}, success : {FALSE}, hasError : {FALSE}, hasData : {FALSE},
     verified : {FALSE}, authtoken : Tokens, pollAfter : {0}]
    \cup [json : {TRUE}, success : {FALSE}, hasError : BOOLEAN, hasData : {FALSE},
          verified : {FALSE}, authtoken : Tokens, pollAfter : {0}]
    \cup [json : {TRUE}, success : {TRUE}, hasError : {FALSE}, hasData : {FALSE},
          verified : {FALSE}, authtoken : Tokens, pollAfter : {0}]
    \cup [json : {TRUE}, success : {TRUE}, hasError : {FALSE}, hasData : {TRUE},
          verified : {TRUE}, authtoken : Tokens, pollAfter : {0}]
    \cup [json : {TRUE}, success : {TRUE}, hasError : {FALSE}, hasData : {TRUE},
          verified : {FALSE}, authtoken : Tokens, pollAfter : PollAfters]

\* ------------------------------------------------------------ error texts
ErrPending == "Cannot change server URL while there are pending requests"
ErrUnknown == "Unknown server error"
ErrServer == "error sent by the server"
ErrNoMessage == "Malformed server response (no error message)"
ErrBadData == "Malformed server response ('data' key missing or format is invalid)"
ErrCancelled == "Request was cancelled"
ErrNoResponse == "Server did not send a response"
ErrCode == "Server responded with code"
ErrGeneric == "Stage 2 failed (generic error)"
ErrTimeout == "Server did not verify the solution in a reasonable amount of time"
ErrPollAfter == "Server sent an invalid pollAfter value"

Ok(v) == [ok |-> TRUE, val |-> v]
Err(e) == [ok |-> FALSE, val |-> e]

VARIABLES
    serverUrl,          \* ArgonState::serverUrl
    serverUrlMtx,       \* TRUE while serverUrlMtx is held
    setPc,              \* position of the thread inside setServerUrl
    setArg,             \* the url argument of the running setServerUrl call
    setResult,          \* what the last finished setServerUrl call returned
    pendingRequests,    \* the registry: set of PendingRequest pointers
    heap,               \* the live PendingRequest objects, by pointer
    nextReqId,          \* ArgonState::nextReqId
    workerThreadTasks,  \* queue of tasks for the worker thread
    workerPc,           \* the task the worker thread runs and its position in it
    workerThread,       \* "running", "stopping" (stop requested) or "joined"
    now,                \* the system clock (ms)
    assignedIds,        \* every id getNextRequestId has returned, in order
    cbCount,            \* per request id: how often its callback was invoked
    lastOp,             \* the operation of the last step, its request and input
    cbOut,              \* results the last step passed to the request's callback
    progOut,            \* markers the last step passed to progressCallback
    netOut              \* transport requests the last step issued

vars == <<serverUrl, serverUrlMtx, setPc, setArg, setResult, pendingRequests, heap,
          nextReqId, workerThreadTasks, workerPc, workerThread, now, assignedIds,
          cbCount, lastOp, cbOut, progOut, netOut>>

urlVars == <<serverUrl, serverUrlMtx, setPc, setArg, setResult>>
workerVars == <<workerThreadTasks, workerPc, workerThread>>

NoEvent == [type |-> "none"]

\* what a step records about itself: the operation, the request it ran for
\* (cell and id), the event delivered, and what the request was like before
Op(name, p, id, e) ==
    [op |-> name, p |-> p, id |-> id, e |-> e,
     was |-> IF p \in DOMAIN heap
               THEN [retrying |-> heap[p].retrying,
                     stage3Listener |-> heap[p].stage3Listener,
                     late |-> now - heap[p].startedVerificationAt > VerifyTimeout]
               ELSE [retrying |-> FALSE, stage3Listener |-> "unbound", late |-> FALSE]]

\* a step that calls no callback and issues no request
Silent ==
    /\ cbOut' = <<>>
    /\ progOut' = <<>>
    /\ netOut' = <<>>
    /\ UNCHANGED cbCount

\* ------------------------------------------------------------- ServerConfig
\* mutant: every trailing slash is stripped
RECURSIVE StripSlash_all(_)
StripSlash_all(url) ==
    IF url # <<>> /\ url[Len(url)] = "/" THEN StripSlash_all(SubSeq(url, 1, Len(url) - 1)) ELSE url

\* "Strip trailing slash": at most one character is popped
StripSlash(url) ==
    IF url # <<>> /\ url[Len(url)] = "/" THEN SubSeq(url, 1, Len(url) - 1) ELSE url

\* auto _lock = serverUrlMtx.lock();
SetServerUrlLock(url) ==
    /\ setPc = "idle"
    /\ ~serverUrlMtx
    /\ serverUrlMtx' = TRUE
    /\ setPc' = "check"
    /\ setArg' = url
    /\ lastOp' = Op("SetServerUrlLock", 0, 0, NoEvent)
    /\ Silent
    /\ UNCHANGED <<serverUrl, setResult, pendingRequests, heap, nextReqId, now, assignedIds>>
    /\ UNCHANGED workerVars

\* if (pendingRequests.lock()->size()) return Err(...);
SetServerUrlCheck ==
    /\ setPc = "check"
    /\ IF Cardinality(pendingRequests) # 0
         THEN /\ setResult' = Err(ErrPending)
              /\ setPc' = "idle"
              /\ setArg' = <<>>
              /\ serverUrlMtx' = FALSE
         ELSE /\ setPc' = "write"
              /\ UNCHANGED <<setResult, setArg, serverUrlMtx>>
    /\ lastOp' = Op("SetServerUrlCheck", 0, 0, NoEvent)
    /\ Silent
    /\ UNCHANGED <<serverUrl, pendingRequests, heap, nextReqId, now, assignedIds>>
    /\ UNCHANGED workerVars

\* serverUrl = std::move(url); strip; return Ok();
SetServerUrlWrite ==
    /\ setPc = "write"
    /\ serverUrl' = StripSlash(setArg)
    /\ setResult' = Ok("")
    /\ setPc' = "idle"
    /\ setArg' = <<>>
    /\ serverUrlMtx' = FALSE
    /\ lastOp' = Op("SetServerUrlWrite", 0, 0, NoEvent)
    /\ Silent
    /\ UNCHANGED <<pendingRequests, heap, nextReqId, now, assignedIds>>
    /\ UNCHANGED workerVars

\* ---------------------------------------------------------- small helpers
\* the main-thread listener callbacks leave these alone
mainFrame == <<serverUrl, serverUrlMtx, setPc, setArg, setResult, nextReqId, now,
               workerPc, workerThread, assignedIds>>

\* req->callback(result)
callback(r, result) ==
    /\ cbOut' = <<result>>
    /\ cbCount' = [cbCount EXCEPT ![r.id] = @ + 1]

NoCallback ==
    /\ cbOut' = <<>>
    /\ UNCHANGED cbCount

\* ArgonState::getRequestById: the registered request with that id, 0 (nullptr)
\* when there is none
getRequestById(id) ==
    IF \E q \in pendingRequests : heap[q].id = id
      THEN CHOOSE q \in pendingRequests : heap[q].id = id
      ELSE 0

\* ArgonState::progress: the callback is optional.  Every handler reports
\* progress before it touches the registry, so what the callback would find
\* in the registry is what the step started with
progress(r, marker) ==
    IF r.progressCallback
      THEN <<[marker |-> marker, found |-> getRequestById(r.id) # 0]>>
      ELSE <<>>

\* the request remembers the markers its progressCallback was given
noted(r, marker) ==
    IF r.progressCallback THEN [r EXCEPT !.markers = Append(@, marker)] ELSE r

\* a transport request issued on behalf of a request
Request(kind, method) == [kind |-> kind, method |-> method]

\* pendingRequests.lock()->erase(req); delete req;
cleanupRequest(p) ==
    /\ pendingRequests' = pendingRequests \ {p}
    /\ heap' = [q \in DOMAIN heap \ {p} |-> heap[q]]

\* mutant: the counter is read but not advanced
getNextRequestId_same(n) == [id |-> n, next |-> n]

\* return nextReqId++;
getNextRequestId(n) == [id |-> n, next |-> n + 1]

\* ------------------------------------------------------- AuthStageDriver
\* mutant: the stage-2 task is also set as the filter of stage1Listener
pushStage2Request_bothListeners(r) ==
    [r EXCEPT !.stage2Listener = "pending", !.stage1Listener = "pending"]

\* preq->stage2Listener.bind(...); preq->stage2Listener.setFilter(req);
pushStage2Request(r) == [r EXCEPT !.stage2Listener = "pending"]

\* preq->stage3Listener.bind(...); preq->stage3Listener.setFilter(req);
pushStage3Request(r) == [r EXCEPT !.stage3Listener = "pending"]

\* argon::stage2Start: builds the stage-2 request for the chosen method and
\* subscribes the request to it
stage2Start(p, r) ==
    /\ heap' = [heap EXCEPT ![p] = pushStage2Request(r)]
    /\ netOut' = <<Request("stage2", r.stage2ChosenMethod)>>

\* argon::stage3Start: issues the stage-3 request and subscribes to it
stage3Start(p, r) ==
    /\ heap' = [heap EXCEPT ![p] = pushStage3Request(r)]
    /\ netOut' = <<Request("stage3", r.stage2ChosenMethod)>>

FlipMethod(m) ==
    IF m = "message" THEN "comment"
    ELSE IF m = "comment" THEN "message"
    ELSE m

\* mutant: the failover is not remembered
restartStage1_noFlag(p, r) ==
    LET m == FlipMethod(r.stage2ChosenMethod) IN
    /\ progOut' = progress(r, "RetryingRequest")
    /\ heap' = [heap EXCEPT ![p] = [noted(r, "RetryingRequest") EXCEPT
                                       !.stage2ChosenMethod = m,
                                       !.stage1Listener = "pending"]]
    /\ netOut' = <<Request("restartStage1", m)>>
    /\ NoCallback
    /\ UNCHANGED <<pendingRequests, workerThreadTasks>>

\* mutant: the request is built before the method is flipped
restartStage1_staleMethod(p, r) ==
    LET m == FlipMethod(r.stage2ChosenMethod) IN
    /\ progOut' = progress(r, "RetryingRequest")
    /\ heap' = [heap EXCEPT ![p] = [noted(r, "RetryingRequest") EXCEPT
                                       !.stage2ChosenMethod = m,
                                       !.retrying = TRUE,
                                       !.stage1Listener = "pending"]]
    /\ netOut' = <<Request("restartStage1", r.stage2ChosenMethod)>>
    /\ NoCallback
    /\ UNCHANGED <<pendingRequests, workerThreadTasks>>

restartStage1(p, r) ==
    LET m == FlipMethod(r.stage2ChosenMethod) IN
    /\ progOut' = progress(r, "RetryingRequest")
    /\ heap' = [heap EXCEPT ![p] = [noted(r, "RetryingRequest") EXCEPT
                                       !.stage2ChosenMethod = m,
                                       !.retrying = TRUE,
                                       !.stage1Listener = "pending"]]
    /\ netOut' = <<Request("restartStage1", m)>>
    /\ NoCallback
    /\ UNCHANGED <<pendingRequests, workerThreadTasks>>

\* a handler that neither reports progress nor issues a request nor queues a task
Quiet ==
    /\ progOut' = <<>>
    /\ netOut' = <<>>
    /\ UNCHANGED workerThreadTasks

handleStage2Error(p, r, error) ==
    IF ~r.retrying
      THEN restartStage1(p, r)
      ELSE /\ callback(r, Err(error))
           /\ cleanupRequest(p)
           /\ Quiet

\* mutant: a stage-3 error always fails over, retrying is not consulted
handleStage3Error_always(p, r, error) == restartStage1(p, r)

handleStage3Error(p, r, error) ==
    IF ~r.retrying
      THEN restartStage1(p, r)
      ELSE /\ callback(r, Err(error))
           /\ cleanupRequest(p)
           /\ Quiet

\* mutant: a stage-1 error goes through the failover policy of stage 2
handleStage1Error_failover(p, r, error) == handleStage2Error(p, r, error)

handleStage1Error(p, r, error) ==
    /\ callback(r, Err(error))
    /\ cleanupRequest(p)
    /\ Quiet

\* mutant: the request is cleaned up without its callback being invoked
handleCancellation_silent(p, r) ==
    /\ NoCallback
    /\ cleanupRequest(p)
    /\ Quiet

\* mutant: a cancellation is treated like any other stage-3 error
handleCancellation_failover(p, r) == handleStage3Error(p, r, ErrCancelled)

handleCancellation(p, r) ==
    /\ callback(r, Err(ErrCancelled))
    /\ cleanupRequest(p)
    /\ Quiet

\* mutant: the request is cleaned up right after the callback, nothing is queued
handleSuccessfulAuth_eager(p, r, authtoken) ==
    /\ callback(r, Ok(authtoken))
    /\ cleanupRequest(p)
    /\ Quiet

handleSuccessfulAuth(p, r, authtoken) ==
    /\ callback(r, Ok(authtoken))
    /\ workerThreadTasks' = Append(workerThreadTasks, [req |-> p, authtoken |-> authtoken])
    /\ heap' = [heap EXCEPT ![p] = r]
    /\ progOut' = <<>>
    /\ netOut' = <<>>
    /\ UNCHANGED pendingRequests

\* mutant: pollAfter is validated before the one-minute limit is looked at
waitAndRetryStage3_pollFirst(p, r, ms) ==
    IF ms < 0 \/ ms > MaxPollAfter
      THEN handleStage3Error(p, r, ErrPollAfter)
    ELSE IF now - r.startedVerificationAt > VerifyTimeout
      THEN handleStage3Error(p, r, ErrTimeout)
    ELSE /\ heap' = [heap EXCEPT ![p] = [r EXCEPT !.stage3Listener = "sleeping",
                                                   !.pollDue = now + ms]]
         /\ progOut' = <<>>
         /\ netOut' = <<>>
         /\ NoCallback
         /\ UNCHANGED <<pendingRequests, workerThreadTasks>>

\* mutant: the limits of pollAfter are exclusive
waitAndRetryStage3_strict(p, r, ms) ==
    IF now - r.startedVerificationAt > VerifyTimeout
      THEN handleStage3Error(p, r, ErrTimeout)
    ELSE IF ms <= 0 \/ ms >= MaxPollAfter
      THEN handleStage3Error(p, r, ErrPollAfter)
    ELSE /\ heap' = [heap EXCEPT ![p] = [r EXCEPT !.stage3Listener = "sleeping",
                                                   !.pollDue = now + ms]]
         /\ progOut' = <<>>
         /\ netOut' = <<>>
         /\ NoCallback
         /\ UNCHANGED <<pendingRequests, workerThreadTasks>>

\* mutant: a poll that has to wait uses up the failover
waitAndRetryStage3_consumes(p, r, ms) ==
    IF now - r.startedVerificationAt > VerifyTimeout
      THEN handleStage3Error(p, r, ErrTimeout)
    ELSE IF ms < 0 \/ ms > MaxPollAfter
      THEN handleStage3Error(p, r, ErrPollAfter)
    ELSE /\ heap' = [heap EXCEPT ![p] = [r EXCEPT !.stage3Listener = "sleeping",
                                                   !.pollDue = now + ms,
                                                   !.retrying = TRUE]]
         /\ progOut' = <<>>
         /\ netOut' = <<>>
         /\ NoCallback
         /\ UNCHANGED <<pendingRequests, workerThreadTasks>>

\* mutant: the time spent verifying is not looked at
waitAndRetryStage3_noLimit(p, r, ms) ==
    IF ms < 0 \/ ms > MaxPollAfter
      THEN handleStage3Error(p, r, ErrPollAfter)
    ELSE /\ heap' = [heap EXCEPT ![p] = [r EXCEPT !.stage3Listener = "sleeping",
                                                   !.pollDue = now + ms]]
         /\ progOut' = <<>>
         /\ netOut' = <<>>
         /\ NoCallback
         /\ UNCHANGED <<pendingRequests, workerThreadTasks>>

waitAndRetryStage3(p, r, ms) ==
    IF now - r.startedVerificationAt > VerifyTimeout
      THEN handleStage3Error(p, r, ErrTimeout)
    ELSE IF ms < 0 \/ ms > MaxPollAfter
      THEN handleStage3Error(p, r, ErrPollAfter)
    ELSE /\ heap' = [heap EXCEPT ![p] = [r EXCEPT !.stage3Listener = "sleeping",
                                                   !.pollDue = now + ms]]
         /\ progOut' = <<>>
         /\ netOut' = <<>>
         /\ NoCallback
         /\ UNCHANGED <<pendingRequests, workerThreadTasks>>

processStage1Response(p, r, response) ==
    IF ~response.json
      THEN handleStage1Error(p, r, ErrUnknown)
    ELSE IF ~response.success
      THEN handleStage1Error(p, r, IF response.hasError THEN ErrServer ELSE ErrNoMessage)
    ELSE IF ~response.hasData
      THEN handleStage1Error(p, r, ErrBadData)
    ELSE LET marker == IF r.retrying THEN "RetryingSolve" ELSE "SolvingChallenge" IN
         /\ progOut' = progress(r, marker)
         /\ stage2Start(p, [noted(r, marker) EXCEPT !.serverIdent = response.ident,
                                                    !.stage2ChosenMethod = response.method])
         /\ NoCallback
         /\ UNCHANGED <<pendingRequests, workerThreadTasks>>

\* mutant: the status is looked at before the body
processStage2Response_statusFirst(p, r, response) ==
    IF ~response.ok
      THEN handleStage2Error(p, r, ErrCode)
    ELSE IF response.body = ""
      THEN handleStage2Error(p, r, ErrNoResponse)
    ELSE IF response.body = "-1"
      THEN handleStage2Error(p, r, ErrGeneric)
    ELSE LET marker == IF r.retrying THEN "RetryingVerify" ELSE "VerifyingChallenge" IN
         /\ progOut' = progress(r, marker)
         /\ stage3Start(p, [noted(r, marker) EXCEPT !.startedVerificationAt = now])
         /\ NoCallback
         /\ UNCHANGED <<pendingRequests, workerThreadTasks>>

processStage2Response(p, r, response) ==
    IF response.body = ""
      THEN handleStage2Error(p, r, ErrNoResponse)
    ELSE IF ~response.ok
      THEN handleStage2Error(p, r, ErrCode)
    ELSE IF response.body = "-1"
      THEN handleStage2Error(p, r, ErrGeneric)
    ELSE LET marker == IF r.retrying THEN "RetryingVerify" ELSE "VerifyingChallenge" IN
         /\ progOut' = progress(r, marker)
         /\ stage3Start(p, [noted(r, marker) EXCEPT !.startedVerificationAt = now])
         /\ NoCallback
         /\ UNCHANGED <<pendingRequests, workerThreadTasks>>

processStage3Response(p, r, response) ==
    IF ~response.json
      THEN handleStage3Error(p, r, ErrUnknown)
    ELSE IF ~response.success
      THEN handleStage3Error(p, r, IF response.hasError THEN ErrServer ELSE ErrNoMessage)
    ELSE IF ~response.hasData
      THEN handleStage3Error(p, r, ErrBadData)
    ELSE IF response.verified
      THEN handleSuccessfulAuth(p, r, response.authtoken)
    ELSE waitAndRetryStage3(p, r, response.pollAfter)

\* ------------------------------------------------------------- operations
\* new PendingRequest: which free cell the allocator returns is not observable,
\* the model takes the lowest one
FreshCell == {q \in Ptrs \ DOMAIN heap : \A q2 \in Ptrs \ DOMAIN heap : q <= q2}

pushNewRequest(account, hasProgress) ==
    /\ nextReqId <= MaxId
    /\ \E p \in FreshCell :
         LET n == getNextRequestId(nextReqId)
             preq == [id |-> n.id,
                      account |-> account,
                      progressCallback |-> hasProgress,
                      markers |-> <<>>,
                      retrying |-> FALSE,
                      stage2ChosenMethod |-> "",
                      serverIdent |-> "",
                      startedVerificationAt |-> 0,
                      pollDue |-> 0,
                      stage1Listener |-> "pending",
                      stage2Listener |-> "unbound",
                      stage3Listener |-> "unbound"] IN
         /\ nextReqId' = n.next
         /\ assignedIds' = Append(assignedIds, n.id)
         /\ progOut' = progress(preq, "RequestedChallenge")
         /\ netOut' = <<Request("stage1", "")>>
         /\ heap' = (p :> noted(preq, "RequestedChallenge")) @@ heap
         /\ pendingRequests' = pendingRequests \cup {p}
         /\ lastOp' = Op("pushNewRequest", p, n.id, NoEvent)
    /\ cbOut' = <<>>
    /\ UNCHANGED <<cbCount, now>>
    /\ UNCHANGED urlVars
    /\ UNCHANGED workerVars

\* the events a task delivers to its listener
Events(responses) ==
    [type : {"value"}, response : responses]
    \cup [type : {"progress", "cancelled"}, response : {CHOOSE x \in responses : TRUE}]

\* e->getProgress(): ignored, the step changes nothing
IgnoreProgress ==
    UNCHANGED <<heap, pendingRequests, workerThreadTasks, lastOp, cbOut, progOut, netOut, cbCount>>

\* the lambda bound to stage1Listener
Stage1Event(p, e) ==
    /\ p \in DOMAIN heap
    /\ heap[p].stage1Listener = "pending"
    /\ LET r == [heap[p] EXCEPT !.stage1Listener = "finished"] IN
       IF e.type = "progress" THEN IgnoreProgress
       ELSE /\ lastOp' = Op("Stage1Event", p, heap[p].id, e)
            /\ IF e.type = "value" THEN processStage1Response(p, r, e.response)
               ELSE handleCancellation(p, r)
    /\ UNCHANGED mainFrame

\* the lambda bound to stage2Listener
Stage2Event(p, e) ==
    /\ p \in DOMAIN heap
    /\ heap[p].stage2Listener = "pending"
    /\ LET r == [heap[p] EXCEPT !.stage2Listener = "finished"] IN
       IF e.type = "progress" THEN IgnoreProgress
       ELSE /\ lastOp' = Op("Stage2Event", p, heap[p].id, e)
            /\ IF e.type = "value" THEN processStage2Response(p, r, e.response)
               ELSE handleCancellation(p, r)
    /\ UNCHANGED mainFrame

\* the lambda bound to stage3Listener; the task is either the stage-3 request
\* or the coroutine that sleeps and then polls
Stage3Event(p, e) ==
    /\ p \in DOMAIN heap
    /\ \/ heap[p].stage3Listener = "pending"
       \/ heap[p].stage3Listener = "sleeping" /\ e.type = "cancelled"
    /\ LET r == [heap[p] EXCEPT !.stage3Listener = "finished"] IN
       IF e.type = "progress" THEN IgnoreProgress
       ELSE /\ lastOp' = Op("Stage3Event", p, heap[p].id, e)
            /\ IF e.type = "value" THEN processStage3Response(p, r, e.response)
               ELSE handleCancellation(p, r)
    /\ UNCHANGED mainFrame

\* co_await sleepFor(duration) has returned: the coroutine issues the poll
PollStage3(p) ==
    /\ p \in DOMAIN heap
    /\ heap[p].stage3Listener = "sleeping"
    /\ now >= heap[p].pollDue
    /\ heap' = [heap EXCEPT ![p] = [@ EXCEPT !.stage3Listener = "pending", !.pollDue = 0]]
    /\ lastOp' = Op("PollStage3", p, heap[p].id, NoEvent)
    /\ netOut' = <<Request("pollStage3", heap[p].stage2ChosenMethod)>>
    /\ progOut' = <<>>
    /\ NoCallback
    /\ UNCHANGED <<pendingRequests, workerThreadTasks>>
    /\ UNCHANGED mainFrame

\* mutant: the registry is not consulted
startAuth_unchecked(account, hasProgress) == pushNewRequest(account, hasProgress)

\* argon::startAuth: "return an error if a mod tries to perform auth multiple
\* times at once with the same account", otherwise the request is created
startAuth(account, hasProgress) ==
    IF \E q \in pendingRequests : heap[q].account = account
      THEN /\ \E q \in pendingRequests :
                /\ heap[q].account = account
                /\ lastOp' = Op("startAuthError", q, heap[q].id, NoEvent)
           /\ Silent
           /\ UNCHANGED <<pendingRequests, heap, nextReqId, now, assignedIds>>
           /\ UNCHANGED urlVars
           /\ UNCHANGED workerVars
      ELSE pushNewRequest(account, hasProgress)

\* ---------------------------------------------------------- worker thread
WorkerIdle == [pc |-> "idle", req |-> 0, authtoken |-> "", res |-> TRUE]

\* the loop function pops a task; the task first stores the authtoken.  A
\* worker that popTimeout has handed a task still runs it after the stop request
WorkerStore(stored) ==
    /\ workerThread # "joined"
    /\ workerPc.pc = "idle"
    /\ workerThreadTasks # <<>>
    /\ LET task == Head(workerThreadTasks) IN
       /\ workerPc' = [pc |-> "cleanup", req |-> task.req,
                       authtoken |-> task.authtoken, res |-> stored]
       /\ lastOp' = Op("WorkerStore", task.req, heap[task.req].id, NoEvent)
    /\ workerThreadTasks' = Tail(workerThreadTasks)
    /\ Silent
    /\ UNCHANGED <<pendingRequests, heap, nextReqId, now, assignedIds, workerThread>>
    /\ UNCHANGED urlVars

\* ... and then cleans the request up, whatever storeAuthToken returned; back
\* in its loop the thread sees a stop request and ends
WorkerCleanup ==
    /\ workerPc.pc = "cleanup"
    /\ workerThread' = IF workerThread = "stopping" THEN "joined" ELSE workerThread
    /\ lastOp' = Op("WorkerCleanup", workerPc.req, heap[workerPc.req].id, NoEvent)
    /\ cleanupRequest(workerPc.req)
    /\ workerPc' = WorkerIdle
    /\ Silent
    /\ UNCHANGED <<workerThreadTasks, nextReqId, now, assignedIds>>
    /\ UNCHANGED urlVars

\* ArgonState::~ArgonState: workerThread.stopAndWait() asks the thread to stop
\* and waits for it
Shutdown ==
    /\ workerThread = "running"
    /\ workerThread' = "stopping"
    /\ lastOp' = Op("Shutdown", 0, 0, NoEvent)
    /\ Silent
    /\ UNCHANGED <<pendingRequests, heap, nextReqId, now, assignedIds,
                   workerThreadTasks, workerPc>>
    /\ UNCHANGED urlVars

\* the thread, between two calls of its loop function, sees the stop request:
\* it ends and stopAndWait returns; what is still queued stays queued
WorkerExit ==
    /\ workerThread = "stopping"
    /\ workerPc.pc = "idle"
    /\ workerThread' = "joined"
    /\ lastOp' = Op("WorkerExit", 0, 0, NoEvent)
    /\ Silent
    /\ UNCHANGED <<pendingRequests, heap, nextReqId, now, assignedIds,
                   workerThreadTasks, workerPc>>
    /\ UNCHANGED urlVars

\* ------------------------------------------------------------------ clock
Tick ==
    /\ now + TickStep <= MaxNow
    /\ now' = now + TickStep
    /\ lastOp' = Op("Tick", 0, 0, NoEvent)
    /\ Silent
    /\ UNCHANGED <<pendingRequests, heap, nextReqId, assignedIds>>
    /\ UNCHANGED urlVars
    /\ UNCHANGED workerVars

\* ---------------------------------------------------------- specification
\* ArgonState::ArgonState: the default url is set, nothing is pending
Init ==
    /\ serverUrl = StripSlash(<<"a">>)
    /\ serverUrlMtx = FALSE
    /\ setPc = "idle"
    /\ setArg = <<>>
    /\ setResult = Ok("")
    /\ pendingRequests = {}
    /\ heap = <<>>
    /\ nextReqId = 1
    /\ workerThreadTasks = <<>>
    /\ workerPc = WorkerIdle
    /\ workerThread = "running"
    /\ now = 0
    /\ assignedIds = <<>>
    /\ cbCount = [i \in Ids |-> 0]
    /\ lastOp = Op("Init", 0, 0, NoEvent)
    /\ cbOut = <<>>
    /\ progOut = <<>>
    /\ netOut = <<>>

\* the protocol: requests, transport events, the worker and the clock
Next ==
    \/ \E account \in Accounts, hasProgress \in BOOLEAN :
          Cardinality(pendingRequests) < MaxReqs /\ pushNewRequest(account, hasProgress)
    \/ \E p \in Ptrs, e \in Events(Stage1Responses) : Stage1Event(p, e)
    \/ \E p \in Ptrs, e \in Events(Stage2Responses) : Stage2Event(p, e)
    \/ \E p \in Ptrs, e \in Events(Stage3Responses) : Stage3Event(p, e)
    \/ \E p \in Ptrs : PollStage3(p)
    \/ \E stored \in BOOLEAN : WorkerStore(stored)
    \/ WorkerCleanup
    \/ Tick

Spec == Init /\ [][Next]_vars

\* the server-url guard against requests that come and go
UrlStage1 == {r \in Stage1Responses : r.hasData /\ r.method = "message"}
UrlStage2 == {r \in Stage2Responses : r.ok /\ r.body = "sent"}
UrlStage3 == {r \in Stage3Responses : r.hasData /\ r.verified}

NextUrl ==
    \/ \E url \in Urls : SetServerUrlLock(url)
    \/ SetServerUrlCheck
    \/ SetServerUrlWrite
    \/ \E account \in Accounts :
          Cardinality(pendingRequests) < MaxReqs /\ pushNewRequest(account, FALSE)
    \/ \E p \in Ptrs, e \in Events(UrlStage1) : Stage1Event(p, e)
    \/ \E p \in Ptrs, e \in Events(UrlStage2) : Stage2Event(p, e)
    \/ \E p \in Ptrs, e \in Events(UrlStage3) : Stage3Event(p, e)
    \/ \E stored \in BOOLEAN : WorkerStore(stored)
    \/ WorkerCleanup

SpecUrl == Init /\ [][NextUrl]_vars

\* authentication started for several accounts, possibly again while a
\* request of the account is registered
NextAuth ==
    \/ \E account \in AuthAccounts : startAuth(account, FALSE)
    \/ \E p \in Ptrs, e \in Events(UrlStage1) : Stage1Event(p, e)
    \/ \E p \in Ptrs, e \in Events(UrlStage2) : Stage2Event(p, e)
    \/ \E p \in Ptrs, e \in Events(UrlStage3) : Stage3Event(p, e)
    \/ \E stored \in BOOLEAN : WorkerStore(stored)
    \/ WorkerCleanup

SpecAuth == Init /\ [][NextAuth]_vars

\* one request after the other, with a clock that runs while a request is
\* being verified and has not run out of time (no other step reads the clock)
Verifying(r) ==
    /\ r.stage3Listener \in {"pending", "sleeping"}
    /\ \/ now - r.startedVerificationAt <= VerifyTimeout
       \/ now < r.pollDue

TickVerifying ==
    /\ \E p \in pendingRequests : Verifying(heap[p])
    /\ now' = now + TickStep
    /\ lastOp' = Op("Tick", 0, 0, NoEvent)
    /\ Silent
    /\ UNCHANGED <<pendingRequests, heap, nextReqId, assignedIds>>
    /\ UNCHANGED urlVars
    /\ UNCHANGED workerVars

\* the events that end a task: its value or its cancellation
Final(responses) == {e \in Events(responses) : e.type # "progress"}

Stage1Done(p) == \E e \in Final(Stage1Responses) : Stage1Event(p, e)
Stage2Done(p) == \E e \in Final(Stage2Responses) : Stage2Event(p, e)
Stage3Done(p) == \E e \in Final(Stage3Responses) : Stage3Event(p, e)
WorkerRuns == \E stored \in BOOLEAN : WorkerStore(stored)

NextLive ==
    \/ \E account \in Accounts : pendingRequests = {} /\ pushNewRequest(account, FALSE)
    \/ \E p \in Ptrs, e \in Events(Stage1Responses) : Stage1Event(p, e)
    \/ \E p \in Ptrs, e \in Events(Stage2Responses) : Stage2Event(p, e)
    \/ \E p \in Ptrs, e \in Events(Stage3Responses) : Stage3Event(p, e)
    \/ \E p \in Ptrs : PollStage3(p)
    \/ \E stored \in BOOLEAN : WorkerStore(stored)
    \/ WorkerCleanup
    \/ TickVerifying

\* every task ends, every sleep ends, the worker thread is scheduled, time passes
Fairness ==
    /\ \A p \in Ptrs : /\ WF_vars(Stage1Done(p))
                        /\ WF_vars(Stage2Done(p))
                        /\ WF_vars(Stage3Done(p))
                        /\ WF_vars(PollStage3(p))
    /\ WF_vars(WorkerRuns)
    /\ WF_vars(WorkerCleanup)
    /\ WF_vars(TickVerifying)

SpecLive == Init /\ [][NextLive]_vars /\ Fairness

\* the protocol until the engine is destroyed: the destructor runs on the main
\* thread, which handles no event from then on; the worker thread goes on until
\* it is joined
NextShutdown ==
    \/ workerThread = "running" /\ Next
    \/ Shutdown
    \/ workerThread = "stopping" /\ \E stored \in BOOLEAN : WorkerStore(stored)
    \/ workerThread = "stopping" /\ WorkerCleanup
    \/ WorkerExit

SpecShutdown == Init /\ [][NextShutdown]_vars

\* =================================================================== claims
IsValue(op, stage) == op.op = stage /\ op.e.type = "value"
IsCancel(op) ==
    op.op \in {"Stage1Event", "Stage2Event", "Stage3Event"} /\ op.e.type = "cancelled"

\* the step ended the request with that error: one callback, gone from the
\* registry and from the heap, nothing reported and nothing issued
TerminalFailure(p, id, error) ==
    /\ cbOut' = <<Err(error)>>
    /\ cbCount'[id] = 1
    /\ p \notin pendingRequests'
    /\ p \notin DOMAIN heap'
    /\ progOut' = <<>>
    /\ netOut' = <<>>

\* C1: the completion callback of a request is invoked at most once; when a
\* request leaves the registry its callback has been invoked exactly once; a
\* step that reports progress for a request finds its callback not yet invoked.
C1_CallbackOnce ==
    [][ /\ \A i \in Ids : cbCount'[i] <= 1
        /\ \A p \in pendingRequests \ pendingRequests' : cbCount'[heap[p].id] = 1
        /\ progOut' # <<>> => cbCount'[lastOp'.id] = 0 ]_vars

\* a request was removed after a failover and a later failure
C1_Witness ==
    /\ IsValue(lastOp, "Stage3Event")
    /\ lastOp.was.retrying
    /\ lastOp.p \notin pendingRequests
    /\ cbCount[lastOp.id] = 1

\* C2: retrying never goes back to false; restartStage1 runs only for a request
\* whose retrying is false and leaves it true (so at most once per request);
\* once retrying is true every stage-2 or stage-3 error ends the request: the
\* callback gets the error, the request is removed, no stage 1 is re-issued.
Stage2Failed(resp) == resp.body = "" \/ ~resp.ok \/ resp.body = "-1"
Stage3Failed(op) ==
    \/ ~op.e.response.json
    \/ ~op.e.response.success
    \/ ~op.e.response.hasData
    \/ /\ ~op.e.response.verified
       /\ \/ op.was.late
          \/ op.e.response.pollAfter < 0
          \/ op.e.response.pollAfter > MaxPollAfter

C2_RetryOnce ==
    [][ /\ \A p \in DOMAIN heap \cap DOMAIN heap' :
             heap[p].id = heap'[p].id /\ heap[p].retrying => heap'[p].retrying
        /\ (netOut' # <<>> /\ netOut'[1].kind = "restartStage1") =>
             /\ ~heap[lastOp'.p].retrying
             /\ heap'[lastOp'.p].retrying
        /\ ( /\ lastOp'.was.retrying
             /\ \/ IsValue(lastOp', "Stage2Event") /\ Stage2Failed(lastOp'.e.response)
                \/ IsValue(lastOp', "Stage3Event") /\ Stage3Failed(lastOp') ) =>
             /\ Len(cbOut') = 1
             /\ ~cbOut'[1].ok
             /\ cbCount'[lastOp'.id] = 1
             /\ lastOp'.p \notin pendingRequests'
             /\ lastOp'.p \notin DOMAIN heap'
             /\ netOut' = <<>> ]_vars

\* a second stage-2 failure ended a request that had already failed over
C2_Witness ==
    /\ IsValue(lastOp, "Stage2Event")
    /\ Stage2Failed(lastOp.e.response)
    /\ lastOp.was.retrying
    /\ cbOut = <<Err(ErrGeneric)>>

\* C3: a cancellation delivered to the stage-1, stage-2 or stage-3 listener
\* (also while the poll is still sleeping, and whatever retrying is) invokes
\* the callback once with "Request was cancelled", removes the request in the
\* same step, starts no failover; and no step issues a transport request for a
\* request whose callback has been invoked.
C3_Cancellation ==
    [][ /\ IsCancel(lastOp') => TerminalFailure(lastOp'.p, lastOp'.id, ErrCancelled)
        /\ netOut' # <<>> => cbCount'[lastOp'.id] = 0 ]_vars

\* the sleeping poll of a request that had failed over was cancelled
C3_Witness ==
    /\ IsCancel(lastOp)
    /\ lastOp.was.stage3Listener = "sleeping"
    /\ lastOp.was.retrying
    /\ cbOut = <<Err(ErrCancelled)>>
    /\ lastOp.p \notin pendingRequests

\* C4: a verified stage-3 response hands the token to the callback while the
\* request stays registered and queues the persistence task; a request whose
\* callback has been invoked leaves the registry only in the worker's cleanup,
\* which runs after storeAuthToken; the worker never invokes the callback, and
\* the cleanup removes the request whether storeAuthToken succeeded or not.
Verified(op) ==
    /\ IsValue(op, "Stage3Event")
    /\ op.e.response.json
    /\ op.e.response.success
    /\ op.e.response.hasData
    /\ op.e.response.verified

C4_SuccessThenCleanup ==
    [][ /\ Verified(lastOp') =>
             /\ cbOut' = <<Ok(lastOp'.e.response.authtoken)>>
             /\ cbCount'[lastOp'.id] = 1
             /\ lastOp'.p \in pendingRequests'
             /\ lastOp'.p \in DOMAIN heap'
             /\ workerThreadTasks' = Append(workerThreadTasks,
                    [req |-> lastOp'.p, authtoken |-> lastOp'.e.response.authtoken])
        /\ \A p \in pendingRequests \ pendingRequests' :
             cbCount[heap[p].id] = 1 =>
               /\ lastOp'.op = "WorkerCleanup"
               /\ workerPc.pc = "cleanup"
               /\ workerPc.req = p
        /\ lastOp'.op \in {"WorkerStore", "WorkerCleanup"} =>
             /\ cbOut' = <<>>
             /\ cbCount' = cbCount
        /\ workerPc.pc = "cleanup" /\ workerPc'.pc = "idle" =>
             /\ workerPc.req \notin pendingRequests'
             /\ workerPc.req \notin DOMAIN heap' ]_vars

\* storeAuthToken failed: the token stays delivered, the request is registered
\* until the cleanup that follows
C4_Witness ==
    /\ workerPc.pc = "cleanup"
    /\ ~workerPc.res
    /\ workerPc.req \in pendingRequests
    /\ cbCount[heap[workerPc.req].id] = 1

\* C5: setServerUrl returns the pending-requests error and leaves serverUrl as
\* it was when the registry is not empty at its check; otherwise it returns Ok
\* and serverUrl becomes the argument without its last character if that is a
\* slash (one slash only), the argument itself otherwise.  Nothing else writes
\* serverUrl.
C5_SetUrl ==
    [][ /\ lastOp'.op = "SetServerUrlCheck" =>
             IF pendingRequests # {}
               THEN /\ setResult' = Err(ErrPending)
                    /\ setPc' = "idle"
                    /\ serverUrl' = serverUrl
               ELSE /\ setPc' = "write"
                    /\ setArg' = setArg
        /\ lastOp'.op = "SetServerUrlWrite" =>
             /\ setResult'.ok
             /\ IF setArg # <<>> /\ setArg[Len(setArg)] = "/"
                  THEN serverUrl' \o <<"/">> = setArg
                  ELSE serverUrl' = setArg
        /\ serverUrl' # serverUrl => lastOp'.op = "SetServerUrlWrite" ]_vars

\* "a//" was stored as "a/"
C5_Witness ==
    /\ lastOp.op = "SetServerUrlWrite"
    /\ setResult.ok
    /\ serverUrl = <<"a", "/">>

\* the error case of C5 with a request whose token was delivered and which the
\* worker has not removed yet
C5_PendingSuccess ==
    /\ lastOp.op = "SetServerUrlCheck"
    /\ setResult = Err(ErrPending)
    /\ \E p \in pendingRequests : cbCount[heap[p].id] = 1

\* C6: setServerUrl never writes serverUrl while a request is registered: in
\* the state its write leaves behind the registry is empty.
C6_NoWriteWhilePending ==
    lastOp.op = "SetServerUrlWrite" => pendingRequests = {}

\* C7: the ids handed out are strictly increasing in the order they were
\* assigned, so none is handed out twice, and the live requests carry
\* assigned, pairwise distinct ids.
C7_IdsIncreasing ==
    /\ \A i, j \in 1..Len(assignedIds) : i < j => assignedIds[i] < assignedIds[j]
    /\ \A p \in DOMAIN heap : \E i \in 1..Len(assignedIds) : assignedIds[i] = heap[p].id
    /\ \A p, q \in DOMAIN heap : p # q => heap[p].id # heap[q].id

\* a second request lives in the cell of the first, destroyed one
C7_Witness ==
    /\ Len(assignedIds) >= 2
    /\ cbCount[assignedIds[1]] = 1
    /\ 1 \in DOMAIN heap
    /\ heap[1].id = assignedIds[2]

\* C8: a stage-1 response that is not JSON, has success=false or has no valid
\* data ends the request, on the first stage 1 and on the one re-issued after
\* a failover alike: the callback gets the error, the request is removed, no
\* failover starts (no progress marker, no transport request).
Stage1Error(resp) ==
    IF ~resp.json THEN ErrUnknown
    ELSE IF ~resp.success THEN (IF resp.hasError THEN ErrServer ELSE ErrNoMessage)
    ELSE ErrBadData

C8_Stage1Terminal ==
    [][ ( /\ IsValue(lastOp', "Stage1Event")
          /\ \/ ~lastOp'.e.response.json
             \/ ~lastOp'.e.response.success
             \/ ~lastOp'.e.response.hasData ) =>
          TerminalFailure(lastOp'.p, lastOp'.id, Stage1Error(lastOp'.e.response)) ]_vars

\* the stage 1 re-issued by a failover failed
C8_Witness ==
    /\ IsValue(lastOp, "Stage1Event")
    /\ ~lastOp.e.response.hasData
    /\ lastOp.was.retrying
    /\ cbOut = <<Err(ErrBadData)>>
    /\ lastOp.p \notin pendingRequests

\* a stage-3 response that asks to poll again
Unverified(op) ==
    /\ IsValue(op, "Stage3Event")
    /\ op.e.response.json
    /\ op.e.response.success
    /\ op.e.response.hasData
    /\ ~op.e.response.verified

\* the step consumed the failover: no callback, the request stays registered
\* with retrying set, stage 1 is re-issued with the method the request now
\* holds, and no poll is pending or sleeping
FailedOver(p, id) ==
    /\ cbOut' = <<>>
    /\ cbCount'[id] = 0
    /\ p \in pendingRequests'
    /\ heap'[p].retrying
    /\ heap'[p].stage1Listener = "pending"
    /\ heap'[p].stage3Listener = "finished"
    /\ netOut' = <<Request("restartStage1", heap'[p].stage2ChosenMethod)>>

BadPollAfter(op) ==
    op.e.response.pollAfter < 0 \/ op.e.response.pollAfter > MaxPollAfter

\* C10 as stated: within the limit a pollAfter below 0 or above 60000 always
\* ends the request with the invalid-pollAfter error.
C10_BadPollAfterAlwaysTerminal ==
    [][ (Unverified(lastOp') /\ ~lastOp'.was.late /\ BadPollAfter(lastOp')) =>
          TerminalFailure(lastOp'.p, lastOp'.id, ErrPollAfter) ]_vars

\* C10 amended: within the limit a pollAfter below 0 or above 60000 ends the
\* request with the invalid-pollAfter error when retrying is already true and
\* consumes the failover when it is false, in both cases without a sleeping or
\* issued poll; every pollAfter from 0 to 60000, both included, is accepted:
\* the poll sleeps for that long, no callback, nothing issued yet.
C10_PollAfter ==
    [][ Unverified(lastOp') /\ ~lastOp'.was.late =>
          IF BadPollAfter(lastOp')
            THEN IF lastOp'.was.retrying
                   THEN TerminalFailure(lastOp'.p, lastOp'.id, ErrPollAfter)
                   ELSE FailedOver(lastOp'.p, lastOp'.id)
            ELSE /\ lastOp'.p \in pendingRequests'
                 /\ heap'[lastOp'.p].stage3Listener = "sleeping"
                 /\ heap'[lastOp'.p].pollDue = now + lastOp'.e.response.pollAfter
                 /\ heap'[lastOp'.p].retrying = lastOp'.was.retrying
                 /\ cbOut' = <<>>
                 /\ netOut' = <<>> ]_vars

\* pollAfter 60001 ended a retrying request within the limit
C10_Witness ==
    /\ Unverified(lastOp)
    /\ ~lastOp.was.late
    /\ lastOp.was.retrying
    /\ lastOp.e.response.pollAfter = MaxPollAfter + 1
    /\ cbOut = <<Err(ErrPollAfter)>>
    /\ lastOp.p \notin pendingRequests

\* C11: once the worker thread has been joined, no request whose callback has
\* been invoked is left in the registry (every terminal outcome, the success
\* before a shutdown included, ends with the removal of the request).
C11_RemovedAfterCallback ==
    workerThread = "joined" => \A p \in pendingRequests : cbCount[heap[p].id] = 0

\* C12: the worker thread is joined only when it has run every queued task:
\* no task is left in the queue at shutdown.
C12_QueueDrained ==
    workerThread = "joined" => workerThreadTasks = <<>>

\* C14: whenever a progressCallback is called for a request, the request is
\* already in the registry (getRequestById finds it): pushNewRequest registers
\* the request before it reports RequestedChallenge.
C14_ProgressFindsRequest ==
    \A i \in 1..Len(progOut) : progOut[i].found

\* C20: the markers given to the progressCallback of a request start with
\* RequestedChallenge, which never comes again; RetryingRequest comes at most
\* once; before it only SolvingChallenge and VerifyingChallenge follow the
\* first marker, after it only RetryingSolve and RetryingVerify; every
\* VerifyingChallenge (RetryingVerify) has a SolvingChallenge (RetryingSolve)
\* before it with no RetryingRequest in between.
MarkersInOrder(m) ==
    LET idx == 1..Len(m)
        retried(i) == \E j \in idx : j < i /\ m[j] = "RetryingRequest"
        solvedBefore(i, solve) ==
            \E j \in idx : /\ j < i
                           /\ m[j] = solve
                           /\ \A k \in idx : j < k /\ k < i => m[k] # "RetryingRequest"
    IN /\ m # <<>>
       /\ m[1] = "RequestedChallenge"
       /\ \A i \in idx : i > 1 => m[i] # "RequestedChallenge"
       /\ \A i, j \in idx : m[i] = "RetryingRequest" /\ m[j] = "RetryingRequest" => i = j
       /\ \A i \in idx : i > 1 /\ m[i] # "RetryingRequest" =>
            IF retried(i) THEN m[i] \in {"RetryingSolve", "RetryingVerify"}
                          ELSE m[i] \in {"SolvingChallenge", "VerifyingChallenge"}
       /\ \A i \in idx : m[i] = "VerifyingChallenge" => solvedBefore(i, "SolvingChallenge")
       /\ \A i \in idx : m[i] = "RetryingVerify" => solvedBefore(i, "RetryingSolve")

C20_ProgressOrder ==
    \A p \in DOMAIN heap : heap[p].progressCallback => MarkersInOrder(heap[p].markers)

\* a request that went through both rounds got all six markers
C20_Witness ==
    \E p \in DOMAIN heap :
        heap[p].markers = <<"RequestedChallenge", "SolvingChallenge", "VerifyingChallenge",
                            "RetryingRequest", "RetryingSolve", "RetryingVerify">>

\* a stage-2 or stage-3 response that the handlers treat as an error
StageError(op) ==
    \/ IsValue(op, "Stage2Event") /\ Stage2Failed(op.e.response)
    \/ IsValue(op, "Stage3Event") /\ Stage3Failed(op)

\* the step failed over from method m to method m2: RetryingRequest reported,
\* retrying set, stage 1 re-issued with m2, the request still registered
RestartedWith(p, m2) ==
    /\ p \in pendingRequests'
    /\ heap'[p].stage2ChosenMethod = m2
    /\ heap'[p].retrying
    /\ heap[p].progressCallback =>
         Len(progOut') = 1 /\ progOut'[1].marker = "RetryingRequest"
    /\ netOut' = <<Request("restartStage1", m2)>>
    /\ cbOut' = <<>>

\* C15 as stated: on the first stage-2 or stage-3 error the method is flipped
\* to the other of the two channels, whatever method stage 1 had stored.
C15_AlwaysFlipped ==
    [][ StageError(lastOp') /\ ~lastOp'.was.retrying =>
          LET m == heap[lastOp'.p].stage2ChosenMethod
              m2 == heap'[lastOp'.p].stage2ChosenMethod IN
          /\ m2 \in {"message", "comment"}
          /\ m2 # m
          /\ RestartedWith(lastOp'.p, m2) ]_vars

\* C15 amended: on the first stage-2 or stage-3 error of a request (retrying
\* false) message becomes comment, comment becomes message and any other
\* stored method is left as it is; RetryingRequest is reported, retrying
\* becomes true and the re-issued stage-1 request carries the resulting method.
C15_Failover ==
    [][ StageError(lastOp') /\ ~lastOp'.was.retrying =>
          LET m == heap[lastOp'.p].stage2ChosenMethod IN
          RestartedWith(lastOp'.p, IF m = "message" THEN "comment"
                                   ELSE IF m = "comment" THEN "message"
                                   ELSE m) ]_vars

\* a stage-3 failure restarted stage 1 with comment after message
C15_Witness ==
    /\ StageError(lastOp)
    /\ lastOp.op = "Stage3Event"
    /\ ~lastOp.was.retrying
    /\ netOut = <<Request("restartStage1", "comment")>>
    /\ heap[lastOp.p].retrying

\* C16: a stage-2 response is a success exactly when its body is non-empty,
\* its status is OK and its body is not "-1": startedVerificationAt is set to
\* the current time, VerifyingChallenge (RetryingVerify when retrying) is
\* reported and stage 3 is issued.  Otherwise it is a stage-2 error whose
\* message is: empty body, "Server did not send a response" (also when the
\* status is not OK); else status not OK, "Server responded with code"; else
\* body "-1", the generic error.  The message reaches the callback when
\* retrying is already true; otherwise the error starts the failover.
C16_Stage2Response ==
    [][ IsValue(lastOp', "Stage2Event") =>
          LET p == lastOp'.p
              resp == lastOp'.e.response IN
          IF resp.body # "" /\ resp.ok /\ resp.body # "-1"
            THEN /\ p \in pendingRequests'
                 /\ heap'[p].startedVerificationAt = now
                 /\ heap'[p].stage3Listener = "pending"
                 /\ heap[p].progressCallback =>
                      /\ Len(progOut') = 1
                      /\ progOut'[1].marker = IF lastOp'.was.retrying THEN "RetryingVerify"
                                              ELSE "VerifyingChallenge"
                 /\ netOut' = <<Request("stage3", heap[p].stage2ChosenMethod)>>
                 /\ cbOut' = <<>>
            ELSE /\ p \in pendingRequests' =>
                      heap'[p].startedVerificationAt = heap[p].startedVerificationAt
                 /\ \A i \in 1..Len(netOut') : netOut'[i].kind # "stage3"
                 /\ IF lastOp'.was.retrying
                      THEN TerminalFailure(p, lastOp'.id,
                                           IF resp.body = "" THEN ErrNoResponse
                                           ELSE IF ~resp.ok THEN ErrCode
                                           ELSE ErrGeneric)
                      ELSE RestartedWith(p, heap'[p].stage2ChosenMethod) ]_vars

\* an empty body with a status that is not OK was reported as no response
C16_Witness ==
    /\ IsValue(lastOp, "Stage2Event")
    /\ lastOp.e.response.body = ""
    /\ ~lastOp.e.response.ok
    /\ lastOp.was.retrying
    /\ cbOut = <<Err(ErrNoResponse)>>

\* what a poll must leave alone
PollFrame(p) ==
    /\ p \in pendingRequests /\ p \in pendingRequests'
    /\ heap'[p].id = heap[p].id
    /\ heap'[p].retrying = heap[p].retrying
    /\ heap'[p].stage2ChosenMethod = heap[p].stage2ChosenMethod
    /\ heap'[p].serverIdent = heap[p].serverIdent
    /\ heap'[p].startedVerificationAt = heap[p].startedVerificationAt
    /\ heap'[p].markers = heap[p].markers
    /\ cbOut' = <<>>
    /\ progOut' = <<>>
    /\ cbCount' = cbCount

\* C17: a stage-3 response with verified=false, pollAfter within 0..60000 and
\* the one-minute limit not exceeded leaves retrying, chosenMethod, ident,
\* startedVerificationAt and the registration as they are, calls no callback,
\* reports no progress and puts the poll to sleep for pollAfter; when the sleep
\* is over exactly one stage-3 poll is issued for the same request, again with
\* nothing else changed.
C17_PollFrame ==
    [][ /\ (Unverified(lastOp') /\ ~lastOp'.was.late /\ ~BadPollAfter(lastOp')) =>
             /\ PollFrame(lastOp'.p)
             /\ netOut' = <<>>
             /\ heap'[lastOp'.p].stage3Listener = "sleeping"
             /\ heap'[lastOp'.p].pollDue = now + lastOp'.e.response.pollAfter
        /\ lastOp'.op = "PollStage3" =>
             /\ PollFrame(lastOp'.p)
             /\ heap[lastOp'.p].stage3Listener = "sleeping"
             /\ now >= heap[lastOp'.p].pollDue
             /\ netOut' = <<Request("pollStage3", heap[lastOp'.p].stage2ChosenMethod)>>
             /\ heap'[lastOp'.p].stage3Listener = "pending" ]_vars

\* a poll was issued after a full minute of sleep, for a request not retrying
C17_Witness ==
    /\ lastOp.op = "PollStage3"
    /\ ~lastOp.was.retrying
    /\ ~heap[lastOp.p].retrying
    /\ now - heap[lastOp.p].startedVerificationAt = MaxPollAfter
    /\ netOut = <<Request("pollStage3", heap[lastOp.p].stage2ChosenMethod)>>

\* the subscriptions of a request that have a transport request (or a poll
\* delay) outstanding
Outstanding(r) ==
    {l \in {"stage1Listener", "stage2Listener", "stage3Listener"} :
        r[l] \in {"pending", "sleeping"}}

\* C18: every request has at most one transport request outstanding over its
\* three subscriptions, a sleeping poll counting for stage 3; a request whose
\* callback has not been invoked has exactly one; after a failover only the
\* re-issued stage-1 request is outstanding.
C18_OneOutstanding ==
    /\ \A p \in DOMAIN heap :
         /\ Cardinality(Outstanding(heap[p])) <= 1
         /\ cbCount[heap[p].id] = 0 => Cardinality(Outstanding(heap[p])) = 1
    /\ (netOut # <<>> /\ netOut[1].kind = "restartStage1") =>
         Outstanding(heap[lastOp.p]) = {"stage1Listener"}

\* stage 1 is outstanding again after a stage-3 failure, stage 3 is not
C18_Witness ==
    /\ StageError(lastOp)
    /\ lastOp.op = "Stage3Event"
    /\ lastOp.was.stage3Listener = "pending"
    /\ lastOp.p \in DOMAIN heap
    /\ Outstanding(heap[lastOp.p]) = {"stage1Listener"}
    /\ heap[lastOp.p].stage2Listener = "finished"

\* C13: starting authentication for an account that has a request in the
\* registry returns an error and starts nothing; a request is only created for
\* an account that has none; the registry never holds two requests of one
\* account.
C13_OnePerAccount ==
    [][ /\ \A p, q \in pendingRequests' : heap'[p].account = heap'[q].account => p = q
        /\ lastOp'.op = "startAuthError" =>
             /\ lastOp'.p \in pendingRequests
             /\ pendingRequests' = pendingRequests
             /\ heap' = heap
             /\ nextReqId' = nextReqId
             /\ netOut' = <<>>
             /\ cbOut' = <<>>
        /\ nextReqId' # nextReqId =>
             \A q \in pendingRequests : heap[q].account # heap'[lastOp'.p].account ]_vars

\* with a request of each account registered, another start was turned down
C13_Witness ==
    /\ lastOp.op = "startAuthError"
    /\ Cardinality(pendingRequests) = 2
    /\ \A a \in AuthAccounts : \E q \in pendingRequests : heap[q].account = a

\* C19: if every task ends with a value or a cancellation, every sleep ends,
\* the worker thread runs and time passes, then every request eventually has
\* its callback invoked and is eventually removed from the registry, whatever
\* the server answers to the polls.
C19_Terminates ==
    \A i \in Ids :
        (\E k \in 1..Len(assignedIds) : assignedIds[k] = i)
            ~> (cbCount[i] = 1 /\ \A p \in pendingRequests : heap[p].id # i)

\* polls answered with pollAfter 0 ran into the limit after a failover
C19_Witness ==
    /\ Unverified(lastOp)
    /\ lastOp.was.late
    /\ lastOp.was.retrying
    /\ lastOp.e.response.pollAfter = 0
    /\ cbOut = <<Err(ErrTimeout)>>
    /\ lastOp.p \notin pendingRequests

====
